---- MODULE Spec2Model ----
(***************************************************************************)
(* A model of maligog-gltf's scene loader (src/src/lib.rs, src/src/util.rs).*)
(*                                                                         *)
(* Scene::from_file is modelled as a sequential state machine: one action  *)
(* per step of the load (import, mesh packing primitive by primitive,      *)
(* image upload, bottom-level structures, samplers, the recursive node     *)
(* traversal with an explicit call stack, top-level structure, load time,  *)
(* transform buffer, materials, construction of the Scene).                *)
(*                                                                         *)
(* Conventions.                                                            *)
(*  - Rust's Option<T> is a sequence of length at most one: None is <<>>   *)
(*    and Some(x) is <<x>>.                                                *)
(*  - Rust indices are 0-based; At(s, i) reads element i of a Vec.         *)
(*  - A byte buffer (Vec<u8>) is kept as its sequence of 32-bit words;     *)
(*    its byte length is 4 * Len. Every element the packer writes (u32     *)
(*    index, f32 component) is exactly one word.                           *)
(*  - f32 matrix entries are modelled by integers (exact arithmetic).      *)
(***************************************************************************)
EXTENDS Integers, Sequences, FiniteSets, TLC

(* ------------------------------ bounds --------------------------------- *)

\* Largest number of nodes in a document of the traversal family.
MaxNodes == 3
\* Largest number of primitives (over all meshes) in a document of the
\* packing families.
MaxPrims == 3
\* Largest number of materials in a document of the material family.
MaxMaterials == 2
\* Largest reading of the monotonic clock.
MaxTime == 1

(* --------------------------- Rust vocabulary --------------------------- *)

None == <<>>
Some(x) == <<x>>
IsSome(o) == o # <<>>
Unwrap(o) == o[1]

At(s, i) == s[i + 1]

\* size_of::<u32>() = size_of::<f32>() = 4: bytemuck::cast_slice turns each
\* element word into this many bytes.
WordBytes == 4
ByteLen(words) == WordBytes * Len(words)

\* The ascending enumeration of a finite set of integers.
RECURSIVE Ascending(_)
Ascending(S) ==
  IF S = {} THEN <<>>
  ELSE LET m == CHOOSE x \in S : \A y \in S : x <= y
       IN  <<m>> \o Ascending(S \ {m})

RECURSIVE Flatten(_)
Flatten(ss) == IF ss = <<>> THEN <<>> ELSE Head(ss) \o Flatten(Tail(ss))

RECURSIVE SumSeq(_)
SumSeq(s) == IF s = <<>> THEN 0 ELSE Head(s) + SumSeq(Tail(s))

(* ------------------------------ matrices ------------------------------- *)

\* gltf::scene::Transform::matrix(): [[f32; 4]; 4], column-major.
\* glam::Mat4: four column vectors.
from_cols_array_2d(m) ==
  [x_axis |-> m[1], y_axis |-> m[2], z_axis |-> m[3], w_axis |-> m[4]]

gltf_to_glam_tranform(gltf_tranform) == from_cols_array_2d(gltf_tranform)

IDENTITY ==
  [x_axis |-> <<1, 0, 0, 0>>, y_axis |-> <<0, 1, 0, 0>>,
   z_axis |-> <<0, 0, 1, 0>>, w_axis |-> <<0, 0, 0, 1>>]

\* glam: Mat4::mul_vec4: the linear combination of the columns.
mul_vec4(m, v) ==
  [i \in 1..4 |->
     m.x_axis[i] * v[1] + m.y_axis[i] * v[2] + m.z_axis[i] * v[3] + m.w_axis[i] * v[4]]

\* glam: Mat4 * Mat4 (self on the left).
MatMul(a, b) ==
  [x_axis |-> mul_vec4(a, b.x_axis), y_axis |-> mul_vec4(a, b.y_axis),
   z_axis |-> mul_vec4(a, b.z_axis), w_axis |-> mul_vec4(a, b.w_axis)]

(* --------------------------- the document ------------------------------ *)
(* What gltf::import yields, as far as the loader reads it.                *)
(*   mesh      [name, primitives]                                          *)
(*   primitive [indices, positions, colors, tex_coords : Option<count>,    *)
(*              material : Option<index>]                                  *)
(*   material  [base_color_factor, base_color_texture : Option<index>,     *)
(*              metallic_roughness_texture : Option<index>,                *)
(*              metallic_factor, roughness_factor]                         *)
(*   texture   [sampler : Option<index>, source : index]                   *)
(*   sampler   [name, mag_filter, min_filter : Option, wrap_s, wrap_t]     *)
(*   image     [format, width, height, pixels]                             *)
(*   node      [transform, mesh : Option<index>, children : Seq(index)]    *)
(*   default_scene : Option<Seq(index)>, the roots of the default scene    *)
(***************************************************************************)

Primitive(ix, pos, col, tex, mat) ==
  [indices |-> ix, positions |-> pos, colors |-> col, tex_coords |-> tex,
   material |-> mat]

\* One triangle: 3 indices, 3 positions, nothing optional.
Triangle == Primitive(Some(3), Some(3), None, None, None)

MagFilters == {"Nearest", "Linear"}
MinFilters == {"Nearest", "Linear", "NearestMipmapNearest", "LinearMipmapNearest",
               "NearestMipmapLinear", "LinearMipmapLinear"}
WrappingModes == {"ClampToEdge", "MirroredRepeat", "Repeat"}
OptionOf(S) == {None} \cup {Some(x) : x \in S}

SamplerKinds ==
  [name : {None}, mag_filter : OptionOf(MagFilters), min_filter : OptionOf(MinFilters),
   wrap_s : WrappingModes, wrap_t : WrappingModes]

\* Sampler i of the fixed sampler list: a nearest / repeat sampler, so that it
\* differs from the loader's default sampler in every field.
FixedSampler(i) ==
  [name |-> Some(ToString(i)), mag_filter |-> Some("Nearest"),
   min_filter |-> Some("NearestMipmapLinear"),
   wrap_s |-> "Repeat", wrap_t |-> "MirroredRepeat"]
FixedSamplers == <<FixedSampler(0), FixedSampler(1)>>

ImageFormats == {"R8", "R8G8", "R8G8B8", "R8G8B8A8", "B8G8R8", "B8G8R8A8"}
Channels(format) ==
  CASE format = "R8" -> 1
    [] format = "R8G8" -> 2
    [] format \in {"R8G8B8", "B8G8R8"} -> 3
    [] OTHER -> 4
\* A 1 x 1 image whose channel bytes are 10, 20, ...
ImageOf(format) ==
  [format |-> format, width |-> 1, height |-> 1,
   pixels |-> [c \in 1..Channels(format) |-> 10 * c]]
FixedImages == <<ImageOf("R8G8B8"), ImageOf("B8G8R8A8")>>

\* Texture 0 names no sampler, texture t > 0 names sampler t - 1; the image
\* indices run the other way round so that they differ from the sampler's.
FixedTextures ==
  [t \in 1..(Len(FixedSamplers) + 1) |->
     [sampler |-> IF t = 1 THEN None ELSE Some(t - 2),
      source  |-> (Len(FixedSamplers) + 1 - t) % Len(FixedImages)]]

\* Material i of the fixed list: never the loader's default values.
Material(i, bct, mrt) ==
  [base_color_factor |-> <<0, i, 1, 1>>, base_color_texture |-> bct,
   metallic_roughness_texture |-> mrt, metallic_factor |-> 0, roughness_factor |-> i]
FixedMaterials(nm) == [i \in 1..nm |-> Material(i - 1, None, None)]

\* Integer stand-ins for node transforms: a translation, a quarter turn
\* about z, and a non-uniform scale. No two of them commute.
Translation == <<<<1, 0, 0, 0>>, <<0, 1, 0, 0>>, <<0, 0, 1, 0>>, <<1, 2, 3, 1>>>>
QuarterTurn == <<<<0, 1, 0, 0>>, <<-1, 0, 0, 0>>, <<0, 0, 1, 0>>, <<0, 0, 0, 1>>>>
Scaling     == <<<<2, 0, 0, 0>>, <<0, 3, 0, 0>>, <<0, 0, 1, 0>>, <<0, 0, 0, 1>>>>
TransformInputs == <<Translation, QuarterTurn, Scaling>>

Node(xf, mesh, children) == [transform |-> xf, mesh |-> mesh, children |-> children]

Document(meshes, materials, textures, samplers, images, nodes, scene) ==
  [meshes |-> meshes, materials |-> materials, textures |-> textures,
   samplers |-> samplers, images |-> images, nodes |-> nodes,
   default_scene |-> scene]

\* One root node per mesh, in mesh order.
OneNodePerMesh(meshes) ==
  [k \in 1..Len(meshes) |-> Node(Translation, Some(k - 1), <<>>)]
RootsOf(nodes) == [k \in 1..Len(nodes) |-> k - 1]

\* A document around a mesh list: every mesh instanced once by a root node.
MeshDocument(meshes, materials) ==
  LET nodes == OneNodePerMesh(meshes)
  IN  Document(meshes, materials, FixedTextures, FixedSamplers,
               FixedImages, nodes, Some(RootsOf(nodes)))

\* The primitives ps grouped into meshes: a new mesh starts after each
\* position in cuts.
MeshesOf(ps, cuts) ==
  LET starts == Ascending({1} \cup {c + 1 : c \in cuts})
      end(k) == IF k = Len(starts) THEN Len(ps) ELSE starts[k + 1] - 1
  IN  [k \in 1..Len(starts) |->
         [name |-> Some(k - 1), primitives |-> SubSeq(ps, starts[k], end(k))]]

\* Packing family: index and vertex counts vary, zero counts included.
CountKinds ==
  { Primitive(Some(ic), Some(vc), None, None, None) : ic \in {0, 3}, vc \in {0, 3} }
\* Optional-stream family: colour and texture-coordinate streams vary.
StreamKinds ==
  { Primitive(Some(3), Some(3), col, tex, None) :
      col \in {None, Some(0), Some(3)}, tex \in {None, Some(3)} }
\* Required-stream family: the index or the position stream may be absent.
RequiredKinds ==
  { Primitive(ix, pos, None, None, None) : ix \in {None, Some(3)}, pos \in {None, Some(3)} }

\* The three families of primitives with the largest number of primitives of
\* a document of each.
PrimitiveFamilies ==
  {<<CountKinds, MaxPrims>>, <<RequiredKinds, MaxPrims>>, <<StreamKinds, MaxPrims - 1>>}

PrimitiveDoc(ps, cuts) == MeshDocument(MeshesOf(ps, cuts), FixedMaterials(MaxMaterials))

\* Material family: up to MaxMaterials materials, each with any or no
\* base-colour texture and the last or no metallic-roughness texture, and one
\* triangle with every choice of material.
TextureRefs == OptionOf(0..(Len(FixedTextures) - 1))
LastTextureRefs == OptionOf({Len(FixedTextures) - 1})
MaterialDoc(bct, mrt, mat) ==
  MeshDocument(<<[name |-> None,
                  primitives |-> <<Primitive(Some(3), Some(3), None, None, mat)>>]>>,
               [k \in DOMAIN bct |-> Material(k - 1, bct[k], mrt[k])])

\* Sampler family: one document sampler of every kind, named by one texture.
SamplerDoc(k) ==
  Document(<<[name |-> None, primitives |-> <<Triangle>>]>>,
           <<Material(0, Some(0), None)>>,
           <<[sampler |-> Some(0), source |-> 0]>>,
           <<k>>, FixedImages, <<Node(Scaling, Some(0), <<>>)>>, Some(<<0>>))

\* Image family: one image of every pixel format.
ImageDoc(f) ==
  Document(<<[name |-> None, primitives |-> <<Triangle>>]>>, <<>>, <<>>, <<>>,
           <<ImageOf(f)>>, <<Node(Scaling, Some(0), <<>>)>>, Some(<<0>>))

\* Traversal family: a mesh of two triangles and a mesh of one. The forest is
\* given by a parent map over 1..n with parent[k] < k (0: a root); node k of
\* the map is document node k - 1 and carries transform k mod 3. With `other`
\* the last root belongs to another scene than the default one.
TraversalMeshes ==
  <<[name |-> Some(0), primitives |-> <<Triangle, Triangle>>],
    [name |-> Some(1), primitives |-> <<Triangle>>]>>
MeshRefs == OptionOf(0..(Len(TraversalMeshes) - 1))
ParentMaps(n) == { p \in [1..n -> 0..(n - 1)] : \A k \in 1..n : p[k] < k }
ChildrenOf(p, k) == Ascending({c - 1 : c \in {c \in DOMAIN p : p[c] = k}})
TraversalDoc(p, mesh, other) ==
  LET nodes == [k \in DOMAIN p |->
                  Node(TransformInputs[(k % 3) + 1], mesh[k], ChildrenOf(p, k))]
      all == ChildrenOf(p, 0)
      scene == IF other /\ all # <<>> THEN SubSeq(all, 1, Len(all) - 1) ELSE all
  IN  Document(TraversalMeshes, FixedMaterials(MaxMaterials), FixedTextures,
               FixedSamplers, FixedImages, nodes, Some(scene))

\* A document without any scene: default_scene() is None.
NoSceneDoc ==
  Document(<<[name |-> None, primitives |-> <<Triangle>>]>>, <<>>, <<>>, <<>>, <<>>,
           <<Node(Scaling, Some(0), <<>>)>>, None)

\* A path names a file: gltf::import either fails (None) or yields a document.
IsFile(f) ==
  \/ f = [import |-> None]
  \/ f = [import |-> Some(NoSceneDoc)]
  \/ \E n \in 0..MaxNodes : \E p \in ParentMaps(n), mesh \in [1..n -> MeshRefs],
                               other \in BOOLEAN :
       f = [import |-> Some(TraversalDoc(p, mesh, other))]
  \/ \E fam \in PrimitiveFamilies : \E n \in 1..fam[2] :
       \E ps \in [1..n -> fam[1]], cuts \in SUBSET (1..(n - 1)) :
         f = [import |-> Some(PrimitiveDoc(ps, cuts))]
  \/ \E nm \in 0..MaxMaterials :
       \E bct \in [1..nm -> TextureRefs], mrt \in [1..nm -> LastTextureRefs],
          mat \in OptionOf(0..(nm - 1)) :
         f = [import |-> Some(MaterialDoc(bct, mrt, mat))]
  \/ \E k \in SamplerKinds : f = [import |-> Some(SamplerDoc(k))]
  \/ \E fmt \in ImageFormats : f = [import |-> Some(ImageDoc(fmt))]

(* ------------------------------- state --------------------------------- *)

VARIABLES
  file,             \* the file behind the path given to Scene::from_file
  pc,               \* the position of the load
  clock,            \* the last reading of the monotonic clock
  index_data,       \* process_meshes: the four growing buffers
  vertex_data,
  color_data,
  tex_coord_data,
  mesh_infos,       \* process_meshes: the MeshInfo of the meshes done
  primitive_infos,  \* process_meshes: the PrimitiveInfo of the current mesh
  mesh_i,           \* process_meshes: the position of the mesh iterator
  prim_i,           \* process_meshes: the position of the primitive iterator
  mesh_data,        \* from_file: Option<MeshData>
  images,           \* from_file: the device images
  blases,           \* from_file: the bottom-level structures
  samplers,         \* from_file: the device samplers
  instance_offset,  \* create_blas_instances: the counter
  root_i,           \* create_blas_instances: the position of scene.nodes()
  stack,            \* the active calls of process_node, innermost last
  blas_instances,   \* from_file: the instances collected so far
  tlas,             \* from_file: Option<top-level structure>
  load_time,        \* from_file: Option<Instant>
  transform_buffer, \* from_file: Option<Buffer>
  material_infos,   \* from_file: the material table
  scene,            \* what from_file returned: Option<Scene>
  previous          \* what an earlier call of from_file on the same path returned

packer == <<index_data, vertex_data, color_data, tex_coord_data, mesh_infos,
            primitive_infos, mesh_i, prim_i>>
traversal == <<instance_offset, root_i, stack, blas_instances>>
resources == <<mesh_data, images, blases, samplers>>
finish == <<tlas, load_time, transform_buffer, material_infos>>
vars == <<file, pc, clock, packer, traversal, resources, finish, scene, previous>>

\* The imported document (defined once the import has succeeded).
doc == Unwrap(file.import)

Init ==
  /\ IsFile(file)
  /\ pc = "import"
  /\ clock = 0
  /\ index_data = <<>> /\ vertex_data = <<>> /\ color_data = <<>> /\ tex_coord_data = <<>>
  /\ mesh_infos = <<>> /\ primitive_infos = <<>> /\ mesh_i = 0 /\ prim_i = 0
  /\ mesh_data = None /\ images = <<>> /\ blases = <<>> /\ samplers = <<>>
  /\ instance_offset = 0 /\ root_i = 0 /\ stack = <<>> /\ blas_instances = <<>>
  /\ tlas = None /\ load_time = None /\ transform_buffer = None /\ material_infos = <<>>
  /\ scene = None
  /\ previous = None

(* --------------------------- gltf::import ------------------------------ *)

\* lib.rs 433-434: both unwraps succeed.
Import ==
  /\ pc = "import"
  /\ IsSome(file.import)
  /\ IsSome(doc.default_scene)
  /\ pc' = "process_meshes"
  /\ UNCHANGED <<file, clock, packer, traversal, resources, finish, scene, previous>>

\* lib.rs 433-434: gltf::import(path).unwrap() or doc.default_scene().unwrap()
\* panics.
ImportPanics ==
  /\ pc = "import"
  /\ \/ file.import = None
     \/ IsSome(file.import) /\ doc.default_scene = None
  /\ pc' = "panicked"
  /\ UNCHANGED <<file, clock, packer, traversal, resources, finish, scene, previous>>

(* --------------------------- process_meshes ---------------------------- *)

\* The reader's iterators, collected: into_u32 indices, [f32; 3] positions,
\* into_rgba_f32 colours, into_f32 texture coordinates. Element k of a stream
\* is written with the value k in every component.
ReadStream(count, width) == [k \in 1..count |-> [c \in 1..width |-> k - 1]]
read_indices(p)    == ReadStream(Unwrap(p.indices), 1)
read_positions(p)  == ReadStream(Unwrap(p.positions), 3)
read_colors(p)     == IF IsSome(p.colors) THEN ReadStream(Unwrap(p.colors), 4) ELSE <<>>
read_tex_coords(p) == IF IsSome(p.tex_coords) THEN ReadStream(Unwrap(p.tex_coords), 2) ELSE <<>>

\* bytemuck::cast_slice: the elements' components, one after the other.
cast_slice(elements) == Flatten(elements)

\* A slip: the document's material index, not shifted.
material_index_unshifted(p) == IF IsSome(p.material) THEN Unwrap(p.material) ELSE 0

\* lib.rs 272-275
material_index(p) == IF IsSome(p.material) THEN Unwrap(p.material) + 1 ELSE 0

\* A slip: an absent stream is recorded as offset 0.
stream_offset_or_zero(has_stream, data) ==
  IF has_stream THEN Some(ByteLen(data)) ELSE Some(0)

\* lib.rs 282-289: the offset of an optional stream.
stream_offset(has_stream, data) == IF has_stream THEN Some(ByteLen(data)) ELSE None

\* A slip: the offsets are read after the data has been appended.
primitive_info_after(p, idx, vtx, col, tex) ==
  [index_offset     |-> ByteLen(idx) + WordBytes * Len(read_indices(p)),
   vertex_offset    |-> ByteLen(vtx) + WordBytes * 3 * Len(read_positions(p)),
   index_count      |-> Len(read_indices(p)),
   vertex_count     |-> Len(read_positions(p)),
   material_index   |-> material_index(p),
   color_offset     |-> stream_offset(IsSome(p.colors), col),
   tex_coord_offset |-> stream_offset(IsSome(p.tex_coords), tex)]

\* lib.rs 276-290
primitive_info(p, idx, vtx, col, tex) ==
  [index_offset     |-> ByteLen(idx),
   vertex_offset    |-> ByteLen(vtx),
   index_count      |-> Len(read_indices(p)),
   vertex_count     |-> Len(read_positions(p)),
   material_index   |-> material_index(p),
   color_offset     |-> stream_offset(IsSome(p.colors), col),
   tex_coord_offset |-> stream_offset(IsSome(p.tex_coords), tex)]

\* lib.rs 291-294
extend_from_slice(data, elements) == data \o cast_slice(elements)

\* lib.rs 249-253
ProcessMeshesBegin ==
  /\ pc = "process_meshes"
  /\ index_data' = <<>> /\ vertex_data' = <<>> /\ color_data' = <<>>
  /\ tex_coord_data' = <<>> /\ mesh_infos' = <<>>
  /\ mesh_i' = 0
  /\ pc' = "meshes"
  /\ UNCHANGED <<file, clock, primitive_infos, prim_i, traversal, resources, finish, scene,
                 previous>>

\* lib.rs 254-255: the next mesh of the iterator.
MeshBegin ==
  /\ pc = "meshes"
  /\ mesh_i < Len(doc.meshes)
  /\ primitive_infos' = <<>>
  /\ prim_i' = 0
  /\ pc' = "primitives"
  /\ UNCHANGED <<file, clock, index_data, vertex_data, color_data, tex_coord_data,
                 mesh_infos, mesh_i, traversal, resources, finish, scene, previous>>

\* The primitive the inner loop is at.
primitive == At(At(doc.meshes, mesh_i).primitives, prim_i)

\* lib.rs 258-259: both unwraps succeed.
required_streams(p) == IsSome(p.indices) /\ IsSome(p.positions)

\* lib.rs 256-295: one pass of the inner loop.
ProcessPrimitive ==
  /\ pc = "primitives"
  /\ prim_i < Len(At(doc.meshes, mesh_i).primitives)
  /\ required_streams(primitive)
  /\ primitive_infos' =
       Append(primitive_infos,
              primitive_info(primitive, index_data, vertex_data, color_data, tex_coord_data))
  /\ index_data' = extend_from_slice(index_data, read_indices(primitive))
  /\ vertex_data' = extend_from_slice(vertex_data, read_positions(primitive))
  /\ color_data' = extend_from_slice(color_data, read_colors(primitive))
  /\ tex_coord_data' = extend_from_slice(tex_coord_data, read_tex_coords(primitive))
  /\ prim_i' = prim_i + 1
  /\ UNCHANGED <<file, pc, clock, mesh_infos, mesh_i, traversal, resources, finish, scene,
                 previous>>

\* A slip: a primitive without its required streams is skipped and the load
\* goes on.
PrimitiveSkipped ==
  /\ pc = "primitives"
  /\ prim_i < Len(At(doc.meshes, mesh_i).primitives)
  /\ ~required_streams(primitive)
  /\ prim_i' = prim_i + 1
  /\ UNCHANGED <<file, pc, clock, index_data, vertex_data, color_data, tex_coord_data,
                 mesh_infos, primitive_infos, mesh_i, traversal, resources, finish, scene,
                 previous>>

\* lib.rs 258-259: read_indices().unwrap() or read_positions().unwrap() panics.
PrimitivePanics ==
  /\ pc = "primitives"
  /\ prim_i < Len(At(doc.meshes, mesh_i).primitives)
  /\ ~required_streams(primitive)
  /\ pc' = "panicked"
  /\ UNCHANGED <<file, clock, packer, traversal, resources, finish, scene, previous>>

\* lib.rs 296-299
MeshEnd ==
  /\ pc = "primitives"
  /\ prim_i = Len(At(doc.meshes, mesh_i).primitives)
  /\ mesh_infos' = Append(mesh_infos, [name |-> At(doc.meshes, mesh_i).name,
                                       primitive_infos |-> primitive_infos])
  /\ mesh_i' = mesh_i + 1
  /\ pc' = "meshes"
  /\ UNCHANGED <<file, clock, index_data, vertex_data, color_data, tex_coord_data,
                 primitive_infos, prim_i, traversal, resources, finish, scene, previous>>

\* device.create_buffer_init: an immutable device buffer holding the bytes.
create_buffer_init(label, data) == [label |-> label, data |-> data]

\* lib.rs 317-336: an optional buffer exists when its data is not empty.
optional_buffer(label, data) ==
  IF ByteLen(data) # 0 THEN Some(create_buffer_init(label, data)) ELSE None

\* lib.rs 301-344
ProcessMeshesEnd ==
  /\ pc = "meshes"
  /\ mesh_i = Len(doc.meshes)
  /\ mesh_data' = Some([index_buffer     |-> create_buffer_init("index buffer", index_data),
                        vertex_buffer    |-> create_buffer_init("vertex buffer", vertex_data),
                        mesh_infos       |-> mesh_infos,
                        color_buffer     |-> optional_buffer("vertex color buffer", color_data),
                        tex_coord_buffer |-> optional_buffer("tex coord buffer", tex_coord_data)])
  /\ pc' = "images"
  /\ UNCHANGED <<file, clock, packer, traversal, images, blases, samplers, finish, scene,
                 previous>>

(* ------------------------- create_device_images ------------------------ *)

\* util.rs 11-35: the formats with a conversion; any other is unimplemented!().
\* ImageBuffer::from_vec(..).unwrap() needs the pixel data to fill the image.
convertible(image) ==
  /\ image.format \in {"R8G8B8", "R8G8B8A8", "B8G8R8", "B8G8R8A8"}
  /\ Len(image.pixels) >= image.width * image.height * Channels(image.format)

\* into_bgra8 of one pixel: channel order b, g, r, a; an absent alpha is 255.
pixel_to_bgra8(format, px) ==
  CASE format = "R8G8B8"   -> <<px[3], px[2], px[1], 255>>
    [] format = "R8G8B8A8" -> <<px[3], px[2], px[1], px[4]>>
    [] format = "B8G8R8"   -> <<px[1], px[2], px[3], 255>>
    [] format = "B8G8R8A8" -> <<px[1], px[2], px[3], px[4]>>

\* util.rs 5-37
convert_image_to_bgra8(image) ==
  LET ch == Channels(image.format)
  IN  Flatten([k \in 1..(image.width * image.height) |->
                 pixel_to_bgra8(image.format, SubSeq(image.pixels, (k - 1) * ch + 1, k * ch))])

\* lib.rs 103-123
create_device_images(gltf_images) ==
  [k \in 1..Len(gltf_images) |->
     [format |-> "B8G8R8A8_UNORM", width |-> gltf_images[k].width,
      height |-> gltf_images[k].height, data |-> convert_image_to_bgra8(gltf_images[k])]]

\* lib.rs 439
CreateDeviceImages ==
  /\ pc = "images"
  /\ \A k \in 1..Len(doc.images) : convertible(doc.images[k])
  /\ images' = create_device_images(doc.images)
  /\ pc' = "blases"
  /\ UNCHANGED <<file, clock, packer, traversal, mesh_data, blases, samplers, finish, scene,
                 previous>>

\* lib.rs 439, util.rs 14-33: an unwrap or unimplemented!() panics.
ImagePanics ==
  /\ pc = "images"
  /\ \E k \in 1..Len(doc.images) : ~convertible(doc.images[k])
  /\ pc' = "panicked"
  /\ UNCHANGED <<file, clock, packer, traversal, resources, finish, scene, previous>>

(* ----------------------------- create_blases --------------------------- *)

\* `x as u32`, and u32 arithmetic: every count and index of the documents
\* modelled is far below 2^32, where the cast and the sum are exact.
AsU32(x) == x

\* lib.rs 355-377: the geometry of one primitive; a buffer is named by its label.
triangle_geometry(md, p) ==
  [index_buffer_view |->
     [buffer_view |-> [buffer |-> md.index_buffer.label, offset |-> p.index_offset],
      index_type |-> "UINT32", count |-> AsU32(p.index_count)],
   vertex_buffer_view |->
     [buffer_view |-> [buffer |-> md.vertex_buffer.label, offset |-> p.vertex_offset],
      format |-> "R32G32B32_SFLOAT", stride |-> WordBytes * 3,
      count |-> AsU32(p.vertex_count)]]

\* lib.rs 352-380: the structure of one MeshInfo; handle is the ordinal of the
\* device object created.
create_blas(md, m, handle) ==
  [handle |-> handle,
   geometries |-> [j \in 1..Len(m.primitive_infos) |-> triangle_geometry(md, m.primitive_infos[j])]]

\* A slip: the structures are built from the meshes in the opposite order.
create_blases_reversed(md) ==
  [i \in 1..Len(md.mesh_infos) |->
     create_blas(md, md.mesh_infos[Len(md.mesh_infos) + 1 - i], i - 1)]

\* lib.rs 347-383
create_blases(md) ==
  [i \in 1..Len(md.mesh_infos) |-> create_blas(md, md.mesh_infos[i], i - 1)]

\* lib.rs 441
CreateBlases ==
  /\ pc = "blases"
  /\ blases' = create_blases(Unwrap(mesh_data))
  /\ pc' = "samplers"
  /\ UNCHANGED <<file, clock, packer, traversal, mesh_data, images, samplers, finish, scene,
                 previous>>

(* ----------------------------- create_samlers -------------------------- *)

\* lib.rs 138-145
mag_filter_of(sampler) ==
  IF IsSome(sampler.mag_filter)
  THEN (IF Unwrap(sampler.mag_filter) = "Nearest" THEN "NEAREST" ELSE "LINEAR")
  ELSE "LINEAR"

\* lib.rs 147-158
min_filter_of(sampler) ==
  IF IsSome(sampler.min_filter)
  THEN (IF Unwrap(sampler.min_filter) \in
             {"Nearest", "NearestMipmapNearest", "NearestMipmapLinear"}
        THEN "NEAREST" ELSE "LINEAR")
  ELSE "LINEAR"

\* lib.rs 160-173
address_mode_of(wrap) ==
  CASE wrap = "ClampToEdge"    -> "CLAMP_TO_EDGE"
    [] wrap = "MirroredRepeat" -> "MIRRORED_REPEAT"
    [] wrap = "Repeat"         -> "REPEAT"

create_sampler(name, mag, min, u, v) ==
  [name |-> name, mag_filter |-> mag, min_filter |-> min,
   address_mode_u |-> u, address_mode_v |-> v]

\* lib.rs 129-136
default_sampler ==
  create_sampler(Some("default sampler"), "LINEAR", "LINEAR", "CLAMP_TO_EDGE", "CLAMP_TO_EDGE")

\* lib.rs 125-183
create_samlers(gltf_samplers) ==
  <<default_sampler>> \o
  [k \in 1..Len(gltf_samplers) |->
     create_sampler(gltf_samplers[k].name, mag_filter_of(gltf_samplers[k]),
                    min_filter_of(gltf_samplers[k]), address_mode_of(gltf_samplers[k].wrap_s),
                    address_mode_of(gltf_samplers[k].wrap_t))]

\* lib.rs 443
CreateSamlers ==
  /\ pc = "samplers"
  /\ samplers' = create_samlers(doc.samplers)
  /\ pc' = "create_blas_instances"
  /\ UNCHANGED <<file, clock, packer, traversal, mesh_data, images, blases, finish, scene,
                 previous>>

(* ---------------- create_blas_instances and process_node --------------- *)

\* scene.nodes(): the roots of the default scene.
roots == Unwrap(doc.default_scene)
\* node.children() of document node n.
children(n) == At(doc.nodes, n).children

\* A slip: the local transform on the left of the parent's.
local_times_parent(parent_tranform, node) ==
  MatMul(gltf_to_glam_tranform(node.transform), parent_tranform)

\* lib.rs 192-193
node_absolute_transform(parent_tranform, node) ==
  MatMul(parent_tranform, gltf_to_glam_tranform(node.transform))

\* maligog::BLASInstance::new(device, blas, transform, instance_offset, mesh index)
BLASInstance(blas, transform, offset, mesh_index) ==
  [blas |-> blas, transform |-> transform, instance_offset |-> offset,
   mesh_index |-> mesh_index]

\* lib.rs 194-202: the instances pushed by the node itself.
own_instances(node, absolute, offset) ==
  IF IsSome(node.mesh)
  THEN <<BLASInstance(At(blases, Unwrap(node.mesh)), absolute, offset,
                      AsU32(Unwrap(node.mesh)))>>
  ELSE <<>>

\* A slip: the counter counts instances, one per mesh-bearing node.
advance_by_one(node, offset) == IF IsSome(node.mesh) THEN AsU32(offset + 1) ELSE offset

\* A slip: `=` for `+=`, the counter restarts at every mesh-bearing node.
advance_assigning(node, offset) ==
  IF IsSome(node.mesh)
  THEN AsU32(Len(At(doc.meshes, Unwrap(node.mesh)).primitives))
  ELSE offset

\* lib.rs 203: the counter after the visit of node.
advance(node, offset) ==
  IF IsSome(node.mesh)
  THEN AsU32(offset + AsU32(Len(At(doc.meshes, Unwrap(node.mesh)).primitives)))
  ELSE offset

\* A slip: the counter is kept from one traversal to the next.
stale_offset == instance_offset

\* lib.rs 227: the counter create_blas_instances starts from.
initial_offset == 0

\* lib.rs 227-228
CreateBlasInstancesBegin ==
  /\ pc = "create_blas_instances"
  /\ instance_offset' = initial_offset
  /\ root_i' = 0
  /\ stack' = <<>>
  /\ blas_instances' = <<>>
  /\ pc' = "process_node"
  /\ UNCHANGED <<file, clock, packer, resources, finish, scene, previous>>

\* The innermost active call.
top == stack[Len(stack)]

\* lib.rs 185-204 entered from lib.rs 229-238 (a root, against the identity)
\* or from lib.rs 206-216 (a child, against the caller's absolute transform).
\* The caller's iterator moves on; the new call has visited its node and is
\* about to iterate over its children.
ProcessNodeCall ==
  /\ pc = "process_node"
  /\ IF stack = <<>> THEN root_i < Len(roots) ELSE top.child_i < Len(children(top.node))
  /\ LET n == IF stack = <<>> THEN At(roots, root_i) ELSE At(children(top.node), top.child_i)
         parent_tranform == IF stack = <<>> THEN IDENTITY ELSE top.node_absolute_transform
         node == At(doc.nodes, n)
         absolute == node_absolute_transform(parent_tranform, node)
         callers == IF stack = <<>> THEN stack
                    ELSE [stack EXCEPT ![Len(stack)].child_i = @ + 1]
     IN  /\ stack' = Append(callers,
                            [node |-> n,
                             parent_tranform |-> parent_tranform,
                             node_absolute_transform |-> absolute,
                             instances |-> own_instances(node, absolute, instance_offset),
                             child_i |-> 0])
         /\ instance_offset' = advance(node, instance_offset)
         /\ root_i' = IF stack = <<>> THEN root_i + 1 ELSE root_i
  /\ UNCHANGED <<file, pc, clock, packer, blas_instances, resources, finish, scene, previous>>

\* A slip: the instances of the children are put before the node's own.
ProcessNodeReturnPrepending ==
  /\ pc = "process_node"
  /\ stack # <<>>
  /\ top.child_i = Len(children(top.node))
  /\ LET rest == SubSeq(stack, 1, Len(stack) - 1)
     IN  IF rest = <<>>
         THEN /\ blas_instances' = blas_instances \o top.instances
              /\ stack' = rest
         ELSE /\ stack' = [rest EXCEPT ![Len(rest)].instances = top.instances \o @]
              /\ UNCHANGED blas_instances
  /\ UNCHANGED <<file, pc, clock, packer, instance_offset, root_i, resources, finish, scene,
                 previous>>

\* lib.rs 205-219: the children are done; the call returns its instances,
\* which the caller appends to its own (lib.rs 205, 216-217) or, for a root,
\* to the collected result (lib.rs 239-240).
ProcessNodeReturn ==
  /\ pc = "process_node"
  /\ stack # <<>>
  /\ top.child_i = Len(children(top.node))
  /\ LET rest == SubSeq(stack, 1, Len(stack) - 1)
     IN  IF rest = <<>>
         THEN /\ blas_instances' = blas_instances \o top.instances
              /\ stack' = rest
         ELSE /\ stack' = [rest EXCEPT ![Len(rest)].instances = @ \o top.instances]
              /\ UNCHANGED blas_instances
  /\ UNCHANGED <<file, pc, clock, packer, instance_offset, root_i, resources, finish, scene,
                 previous>>

\* lib.rs 241: every root is done.
CreateBlasInstancesEnd ==
  /\ pc = "process_node"
  /\ stack = <<>>
  /\ root_i = Len(roots)
  /\ pc' = "tlas"
  /\ UNCHANGED <<file, clock, packer, traversal, resources, finish, scene, previous>>

(* ------------------------- the rest of from_file ----------------------- *)

\* lib.rs 447-452: the instances are built and aggregated into one top-level
\* structure.
BuildTlas ==
  /\ pc = "tlas"
  /\ tlas' = Some([instance_geometry |-> blas_instances])
  /\ pc' = "load_time"
  /\ UNCHANGED <<file, clock, packer, traversal, resources, load_time, transform_buffer,
                 material_infos, scene, previous>>

\* lib.rs 453: Instant::now() reads the monotonic clock.
ReadLoadTime ==
  /\ pc = "load_time"
  /\ load_time' = Some(clock)
  /\ pc' = "transforms"
  /\ UNCHANGED <<file, clock, packer, traversal, resources, tlas, transform_buffer, material_infos,
                 scene, previous>>

\* lib.rs 455-458: instance.transform() of every instance, in order.
transforms_of(instances) == [k \in 1..Len(instances) |-> instances[k].transform]

\* lib.rs 455-465
PackTransforms ==
  /\ pc = "transforms"
  /\ transform_buffer' =
       Some(create_buffer_init("transform buffer", transforms_of(blas_instances)))
  /\ pc' = "materials"
  /\ UNCHANGED <<file, clock, packer, traversal, resources, tlas, load_time, material_infos,
                 scene, previous>>

\* A slip: the document's sampler index, not shifted.
resolve_texture_unshifted(textures, t) ==
  [sampler_index |-> IF IsSome(At(textures, t).sampler)
                     THEN AsU32(Unwrap(At(textures, t).sampler)) ELSE 0,
   image_index   |-> AsU32(At(textures, t).source)]

\* lib.rs 397-403, 404-413: a texture reference resolved.
resolve_texture(textures, t) ==
  [sampler_index |-> IF IsSome(At(textures, t).sampler)
                     THEN AsU32(Unwrap(At(textures, t).sampler)) + 1 ELSE 0,
   image_index   |-> AsU32(At(textures, t).source)]

resolve_optional(textures, ref) ==
  IF IsSome(ref) THEN Some(resolve_texture(textures, Unwrap(ref))) ELSE None

\* lib.rs 387-393
default_material ==
  [base_color_factor |-> <<1, 1, 1, 1>>, base_color_texture |-> None,
   metallic_roughness_texture |-> None, metallic_factor |-> 1, roughness_factor |-> 1]

\* lib.rs 394-423: the MaterialInfo of one document material.
material_info(textures, m) ==
  [base_color_factor |-> m.base_color_factor,
   base_color_texture |-> resolve_optional(textures, m.base_color_texture),
   metallic_roughness_texture |-> resolve_optional(textures, m.metallic_roughness_texture),
   metallic_factor |-> m.metallic_factor,
   roughness_factor |-> m.roughness_factor]

\* lib.rs 385-425
gather_material_infos(gltf_materials, textures) ==
  <<default_material>> \o
  [k \in 1..Len(gltf_materials) |-> material_info(textures, gltf_materials[k])]

\* lib.rs 467
GatherMaterialInfos ==
  /\ pc = "materials"
  /\ material_infos' = gather_material_infos(doc.materials, doc.textures)
  /\ pc' = "construct"
  /\ UNCHANGED <<file, clock, packer, traversal, resources, tlas, load_time,
                 transform_buffer, scene, previous>>

\* lib.rs 469-478
Construct ==
  /\ pc = "construct"
  /\ scene' = Some([mesh_data |-> Unwrap(mesh_data),
                    images |-> images,
                    tlas |-> Unwrap(tlas),
                    samplers |-> samplers,
                    doc |-> doc,
                    load_time |-> Unwrap(load_time),
                    instance_data |-> [transform_buffer |-> Unwrap(transform_buffer)],
                    material_infos |-> material_infos])
  /\ pc' = "done"
  /\ UNCHANGED <<file, clock, packer, traversal, resources, finish, previous>>

\* lib.rs 503-511 and 513-521: an optional buffer as a view from offset 0.
optional_view(buffer) ==
  IF IsSome(buffer) THEN Some([buffer |-> Unwrap(buffer).label, offset |-> 0]) ELSE None
Scene_color_buffer(sc) == optional_view(sc.mesh_data.color_buffer)
Scene_tex_coord_buffer(sc) == optional_view(sc.mesh_data.tex_coord_buffer)
\* lib.rs 523-525
Scene_mesh_infos(sc) == sc.mesh_data.mesh_infos

\* The caller loads the same path once more: the Scene returned is kept and
\* from_file starts again, at once or after the clock has moved on. Nothing
\* else is touched: every step of the load initialises what it uses.
LoadAgain ==
  /\ pc = "done"
  /\ previous = None
  /\ previous' = scene
  /\ scene' = None
  /\ clock' \in clock..MaxTime
  /\ pc' = "import"
  /\ UNCHANGED <<file, packer, traversal, resources, finish>>

(* --------------------------- specifications ---------------------------- *)

\* One call of Scene::from_file.
Next ==
  \/ Import \/ ImportPanics
  \/ ProcessMeshesBegin \/ MeshBegin \/ ProcessPrimitive \/ PrimitivePanics \/ MeshEnd
  \/ ProcessMeshesEnd
  \/ CreateDeviceImages \/ ImagePanics
  \/ CreateBlases
  \/ CreateSamlers
  \/ CreateBlasInstancesBegin \/ ProcessNodeCall \/ ProcessNodeReturn
  \/ CreateBlasInstancesEnd
  \/ BuildTlas \/ ReadLoadTime \/ PackTransforms \/ GatherMaterialInfos \/ Construct

Spec == Init /\ [][Next]_vars

\* Two calls of Scene::from_file on the same path, one after the other.
NextTwice == Next \/ LoadAgain

SpecTwice == Init /\ [][NextTwice]_vars

(* ------------------- what the claims are stated with ------------------- *)

\* The positions of the load after the given step.
AfterMeshes ==
  {"images", "blases", "samplers", "create_blas_instances", "process_node", "tlas",
   "load_time", "transforms", "materials", "construct", "done"}
AfterBlases == AfterMeshes \ {"images", "blases"}
AfterSamplers == AfterBlases \ {"samplers"}
AfterTraversal == {"tlas", "load_time", "transforms", "materials", "construct", "done"}
AfterMaterials == {"construct", "done"}

\* A matrix as its rows of entries, whatever the storage order.
Entries(m) ==
  LET cols == <<m.x_axis, m.y_axis, m.z_axis, m.w_axis>>
  IN  [r \in 1..4 |-> [c \in 1..4 |-> cols[c][r]]]
\* The local transform of document node n: the document stores columns.
LocalMatrix(n) == [r \in 1..4 |-> [c \in 1..4 |-> At(doc.nodes, n).transform[c][r]]]
IdentityMatrix == [r \in 1..4 |-> [c \in 1..4 |-> IF r = c THEN 1 ELSE 0]]
\* The matrix product a b: entry (r, c) is row r of a times column c of b.
Product(a, b) ==
  [r \in 1..4 |-> [c \in 1..4 |->
     a[r][1] * b[1][c] + a[r][2] * b[2][c] + a[r][3] * b[3][c] + a[r][4] * b[4][c]]]
\* m1 m2 ... mk, the empty product being the identity.
RECURSIVE ProductOf(_)
ProductOf(ms) == IF ms = <<>> THEN IdentityMatrix ELSE Product(Head(ms), ProductOf(Tail(ms)))

Range(f) == {f[x] : x \in DOMAIN f}
NodeIds == 0..(Len(doc.nodes) - 1)
HasParent(n) == \E m \in NodeIds : n \in Range(children(m))
ParentOf(n) == CHOOSE m \in NodeIds : n \in Range(children(m))
\* The nodes from a root down to n.
RECURSIVE PathTo(_)
PathTo(n) == IF HasParent(n) THEN Append(PathTo(ParentOf(n)), n) ELSE <<n>>
\* local(A1) local(A2) ... local(An) local(N)
PathProduct(n) == LET path == PathTo(n) IN ProductOf([k \in DOMAIN path |-> LocalMatrix(path[k])])
Reverse(q) == [k \in DOMAIN q |-> q[Len(q) + 1 - k]]

\* Depth-first pre-order: a node, then the subtrees of its children in order.
RECURSIVE Preorder(_), PreorderAll(_)
Preorder(n) == <<n>> \o PreorderAll(children(n))
PreorderAll(ns) == IF ns = <<>> THEN <<>> ELSE Preorder(Head(ns)) \o PreorderAll(Tail(ns))
HasMesh(n) == IsSome(At(doc.nodes, n).mesh)
MeshOf(n) == Unwrap(At(doc.nodes, n).mesh)
\* The mesh-bearing nodes reachable from the roots of the scene, in pre-order.
MeshNodes == SelectSeq(PreorderAll(roots), HasMesh)
PrimitiveCount(m) == Len(At(doc.meshes, m).primitives)

(* -------------------------------- claims ------------------------------- *)

\* C1: the absolute transform of every node visited by process_node, and the
\* transform stored in its instance, is the product local(A1) ... local(An)
\* local(N) of the local transforms from the root down to the node, parent on
\* the left; a root is composed against the identity, so that its absolute
\* transform is its local transform. After the traversal the instances carry
\* these products, node by node.
C1_AbsoluteTransform ==
  /\ pc = "process_node" =>
       \A d \in DOMAIN stack :
         LET f == stack[d] IN
         /\ Entries(f.node_absolute_transform) = PathProduct(f.node)
         /\ HasMesh(f.node) =>
              /\ f.instances # <<>>
              /\ f.instances[1].transform = f.node_absolute_transform
         /\ d = 1 =>
              /\ f.parent_tranform = IDENTITY
              /\ Entries(f.node_absolute_transform) = LocalMatrix(f.node)
  /\ pc \in AfterTraversal =>
       /\ Len(blas_instances) = Len(MeshNodes)
       /\ \A k \in DOMAIN blas_instances :
            Entries(blas_instances[k].transform) = PathProduct(MeshNodes[k])

\* A mesh-bearing node two levels below a root has been visited, and the
\* product of the three local transforms in the opposite order is another
\* matrix.
C1_Witness ==
  /\ pc = "process_node"
  /\ Len(stack) = 3
  /\ top.instances # <<>>
  /\ top.instances[1].transform = top.node_absolute_transform
  /\ Entries(top.node_absolute_transform) # 
       ProductOf(Reverse([k \in DOMAIN PathTo(top.node) |-> LocalMatrix(PathTo(top.node)[k])]))

\* C2: a visit of a mesh-bearing node emits exactly one instance whose
\* primitive offset is the counter at the moment of the visit and then adds
\* the number of primitives of the mesh to the counter; a visit of a node
\* without a mesh emits nothing and leaves the counter alone; the traversal
\* starts the counter at 0 and no other step of it changes the counter.
C2_Step ==
  /\ pc = "create_blas_instances" => instance_offset' = 0
  /\ (pc = "process_node" /\ Len(stack') > Len(stack)) =>
       LET f == stack'[Len(stack')] IN
       IF HasMesh(f.node)
       THEN /\ Len(f.instances) = 1
            /\ f.instances[1].instance_offset = instance_offset
            /\ instance_offset' = instance_offset + PrimitiveCount(MeshOf(f.node))
       ELSE /\ f.instances = <<>>
            /\ instance_offset' = instance_offset
  /\ (pc = "process_node" /\ Len(stack') <= Len(stack)) => instance_offset' = instance_offset
C2_CounterPerVisit == [][C2_Step]_vars

\* A mesh-bearing node has just been visited when the counter was not 0: its
\* instance carries the old counter and the counter has moved on by the two
\* primitives of its mesh.
C2_Witness ==
  /\ pc = "process_node"
  /\ stack # <<>>
  /\ top.child_i = 0
  /\ HasMesh(top.node)
  /\ PrimitiveCount(MeshOf(top.node)) = 2
  /\ top.instances[1].instance_offset > 0
  /\ instance_offset = top.instances[1].instance_offset + 2

\* C3: after the traversal the counter is the sum, over the visited nodes
\* that reference a mesh, of the number of primitives of the mesh referenced,
\* once per referencing node.
C3_CounterTotal ==
  pc \in AfterTraversal =>
    instance_offset = SumSeq([k \in DOMAIN MeshNodes |-> PrimitiveCount(MeshOf(MeshNodes[k]))])

\* The traversal is over; the mesh of two primitives was referenced by two
\* visited nodes and the other mesh by none, and a mesh-bearing node that is
\* not in the scene was not counted.
C3_Witness ==
  /\ pc = "tlas"
  /\ Len(MeshNodes) = 2
  /\ \A k \in DOMAIN MeshNodes : PrimitiveCount(MeshOf(MeshNodes[k])) = 2
  /\ \E n \in NodeIds : HasMesh(n) /\ n \notin Range(MeshNodes)
  /\ instance_offset = 4

\* The MeshData process_meshes returned.
md == Unwrap(mesh_data)
\* Primitive j of document mesh i and its PrimitiveInfo (both 1-based here).
DocPrimitive(i, j) == doc.meshes[i].primitives[j]
Info(i, j) == md.mesh_infos[i].primitive_infos[j]
\* The primitives of the document in packing order, as pairs <<i, j>>.
PackingOrder ==
  Flatten([i \in DOMAIN doc.meshes |-> [j \in DOMAIN doc.meshes[i].primitives |-> <<i, j>>]])
PackedPrimitive(k) == DocPrimitive(PackingOrder[k][1], PackingOrder[k][2])
PositionOf(i, j) == CHOOSE k \in DOMAIN PackingOrder : PackingOrder[k] = <<i, j>>
StreamCount(stream) == IF IsSome(stream) THEN Unwrap(stream) ELSE 0
IndexCount(p) == StreamCount(p.indices)
VertexCount(p) == StreamCount(p.positions)
ColorCount(p) == StreamCount(p.colors)
TexCoordCount(p) == StreamCount(p.tex_coords)
\* The number of elements of each stream that the primitives packed before
\* position k supply.
IndicesBefore(k) == SumSeq([q \in 1..(k - 1) |-> IndexCount(PackedPrimitive(q))])
VerticesBefore(k) == SumSeq([q \in 1..(k - 1) |-> VertexCount(PackedPrimitive(q))])
ColorsBefore(k) == SumSeq([q \in 1..(k - 1) |-> ColorCount(PackedPrimitive(q))])
TexCoordsBefore(k) == SumSeq([q \in 1..(k - 1) |-> TexCoordCount(PackedPrimitive(q))])

\* C4: one MeshInfo per document mesh in document order, one bottom-level
\* structure per MeshInfo in the same order with one triangle geometry per
\* primitive, so that structure i is built from the primitives of document
\* mesh i; and the instance of a node that references mesh i refers to
\* structure i.
C4_MeshIndexAlignment ==
  /\ pc \in AfterMeshes =>
       /\ Len(md.mesh_infos) = Len(doc.meshes)
       /\ \A i \in DOMAIN doc.meshes :
            /\ md.mesh_infos[i].name = doc.meshes[i].name
            /\ Len(md.mesh_infos[i].primitive_infos) = Len(doc.meshes[i].primitives)
            /\ \A j \in DOMAIN doc.meshes[i].primitives :
                 /\ Info(i, j).index_count = IndexCount(DocPrimitive(i, j))
                 /\ Info(i, j).vertex_count = VertexCount(DocPrimitive(i, j))
                 /\ Info(i, j).index_offset =
                      WordBytes * IndicesBefore(PositionOf(i, j))
                 /\ Info(i, j).vertex_offset =
                      WordBytes * 3 * VerticesBefore(PositionOf(i, j))
  /\ pc \in AfterBlases =>
       /\ Len(blases) = Len(doc.meshes)
       /\ \A i \in DOMAIN doc.meshes :
            /\ \A k \in DOMAIN doc.meshes : blases[i] = blases[k] => i = k
            /\ Len(blases[i].geometries) = Len(doc.meshes[i].primitives)
            /\ \A j \in DOMAIN doc.meshes[i].primitives :
                 LET g == blases[i].geometries[j] IN
                 /\ g.index_buffer_view.buffer_view.offset = Info(i, j).index_offset
                 /\ g.index_buffer_view.count = IndexCount(DocPrimitive(i, j))
                 /\ g.vertex_buffer_view.buffer_view.offset = Info(i, j).vertex_offset
                 /\ g.vertex_buffer_view.count = VertexCount(DocPrimitive(i, j))
  /\ pc = "process_node" =>
       \A d \in DOMAIN stack :
         HasMesh(stack[d].node) =>
           stack[d].instances[1].blas = At(blases, MeshOf(stack[d].node))
  /\ pc \in AfterTraversal =>
       \A k \in DOMAIN blas_instances :
         blas_instances[k].blas = At(blases, MeshOf(MeshNodes[k]))

\* A Scene of two meshes with different numbers of primitives whose first
\* instance refers to the structure of the second mesh and whose second
\* instance to the structure of the first.
C4_Witness ==
  /\ pc = "done"
  /\ Len(blases) = 2
  /\ Len(blases[1].geometries) # Len(blases[2].geometries)
  /\ Len(blas_instances) = 2
  /\ blas_instances[1].blas = blases[2]
  /\ blas_instances[2].blas = blases[1]

FromMaterial(info, m) ==
  /\ info.base_color_factor = m.base_color_factor
  /\ info.metallic_factor = m.metallic_factor
  /\ info.roughness_factor = m.roughness_factor
  /\ IsSome(info.base_color_texture) <=> IsSome(m.base_color_texture)
  /\ IsSome(info.metallic_roughness_texture) <=> IsSome(m.metallic_roughness_texture)

\* C6: material_index is 0 for a primitive without material and the document
\* material index + 1 otherwise; the material list starts with the fixed
\* default (base colour (1,1,1,1), no textures, metallic 1, roughness 1)
\* whatever the document holds, followed by one entry per document material
\* in document order, so that a material_index m > 0 addresses document
\* material m - 1 and 0 addresses no document material.
C6_MaterialDefault ==
  /\ pc \in AfterMeshes =>
       \A i \in DOMAIN doc.meshes : \A j \in DOMAIN doc.meshes[i].primitives :
         LET p == DocPrimitive(i, j) IN
         /\ p.material = None => Info(i, j).material_index = 0
         /\ IsSome(p.material) => Info(i, j).material_index = Unwrap(p.material) + 1
  /\ pc \in AfterMaterials =>
       /\ Len(material_infos) = Len(doc.materials) + 1
       /\ At(material_infos, 0) =
            [base_color_factor |-> <<1, 1, 1, 1>>, base_color_texture |-> <<>>,
             metallic_roughness_texture |-> <<>>, metallic_factor |-> 1,
             roughness_factor |-> 1]
       /\ \A k \in 0..(Len(doc.materials) - 1) :
            FromMaterial(At(material_infos, k + 1), At(doc.materials, k))
       /\ \A i \in DOMAIN doc.meshes : \A j \in DOMAIN doc.meshes[i].primitives :
            LET m == Info(i, j).material_index IN
            /\ m < Len(material_infos)
            /\ m > 0 => FromMaterial(At(material_infos, m),
                                     At(doc.materials, Unwrap(DocPrimitive(i, j).material)))

\* A Scene whose primitive uses the second of two document materials:
\* material_index is 2 and entry 2 of the list, which is not the default, was
\* made from that material.
C6_Witness ==
  /\ pc = "done"
  /\ Len(doc.materials) = 2
  /\ DocPrimitive(1, 1).material = Some(1)
  /\ Info(1, 1).material_index = 2
  /\ At(material_infos, 2) # At(material_infos, 0)
  /\ At(material_infos, 2) # At(material_infos, 1)
  /\ IsSome(At(material_infos, 2).base_color_texture)

\* The device sampler made from a document sampler: its name, and its
\* filters and address modes as far as nearest and repeat go.
FromSampler(dev, sampler) ==
  /\ dev.name = sampler.name
  /\ dev.mag_filter = "NEAREST" <=> sampler.mag_filter = Some("Nearest")
  /\ dev.min_filter \in {"NEAREST", "LINEAR"}
  /\ dev.address_mode_u = "REPEAT" <=> sampler.wrap_s = "Repeat"
  /\ dev.address_mode_u = "CLAMP_TO_EDGE" <=> sampler.wrap_s = "ClampToEdge"
  /\ dev.address_mode_v = "REPEAT" <=> sampler.wrap_t = "Repeat"
  /\ dev.address_mode_v = "CLAMP_TO_EDGE" <=> sampler.wrap_t = "ClampToEdge"

\* The texture resolved from texture reference ref of a document material.
Resolves(resolved, ref) ==
  /\ IsSome(resolved) <=> IsSome(ref)
  /\ IsSome(ref) =>
       LET t == At(doc.textures, Unwrap(ref))
           x == Unwrap(resolved)
       IN  /\ t.sampler = None => x.sampler_index = 0
           /\ IsSome(t.sampler) => x.sampler_index = Unwrap(t.sampler) + 1
           /\ x.image_index = t.source
           /\ x.sampler_index < Len(samplers)
           /\ x.sampler_index > 0 =>
                FromSampler(At(samplers, x.sampler_index), At(doc.samplers, Unwrap(t.sampler)))

\* C7: a resolved texture has sampler_index 0 when its texture names no
\* sampler and the document sampler index + 1 otherwise, and the document
\* image index as image_index; the sampler list starts with a linear,
\* clamp-to-edge sampler whatever the document holds, followed by the
\* document's samplers in order, so that every sampler_index is an index of
\* the list and s > 0 addresses document sampler s - 1.
C7_SamplerDefault ==
  /\ pc \in AfterSamplers =>
       /\ Len(samplers) = Len(doc.samplers) + 1
       /\ At(samplers, 0).mag_filter = "LINEAR" /\ At(samplers, 0).min_filter = "LINEAR"
       /\ At(samplers, 0).address_mode_u = "CLAMP_TO_EDGE"
       /\ At(samplers, 0).address_mode_v = "CLAMP_TO_EDGE"
       /\ \A k \in 0..(Len(doc.samplers) - 1) :
            FromSampler(At(samplers, k + 1), At(doc.samplers, k))
  /\ pc \in AfterMaterials =>
       \A k \in 0..(Len(doc.materials) - 1) :
         /\ Resolves(At(material_infos, k + 1).base_color_texture,
                     At(doc.materials, k).base_color_texture)
         /\ Resolves(At(material_infos, k + 1).metallic_roughness_texture,
                     At(doc.materials, k).metallic_roughness_texture)

\* A Scene with a material whose base-colour texture names no sampler
\* (sampler_index 0) and whose metallic-roughness texture names document
\* sampler 1 (sampler_index 2) and document image 0 (image_index 0), the
\* document's samplers being no linear clamp-to-edge samplers.
C7_Witness ==
  /\ pc = "done"
  /\ Len(samplers) = 3
  /\ At(samplers, 2).mag_filter = "NEAREST" /\ At(samplers, 2).address_mode_u = "REPEAT"
  /\ \E k \in 1..Len(doc.materials) :
       /\ At(material_infos, k).base_color_texture =
            Some([sampler_index |-> 0, image_index |-> 0])
       /\ At(material_infos, k).metallic_roughness_texture =
            Some([sampler_index |-> 2, image_index |-> 0])

\* The byte lengths of the colour and texture-coordinate data of the whole
\* document: four and two words per element.
ColorBytes(count) == WordBytes * 4 * count
TexCoordBytes(count) == WordBytes * 2 * count
AllPacked == Len(PackingOrder) + 1

\* C8: color_offset (tex_coord_offset) is present exactly when the primitive
\* supplies the stream and is then the byte length of the shared buffer
\* before the primitive's data; a primitive that does not supply the stream
\* gets None, never offset 0, and appends nothing; the Scene exposes the
\* colour (texture-coordinate) buffer exactly when the accumulated byte
\* length is not zero.
C8_OptionalStreams ==
  /\ pc \in AfterMeshes =>
       /\ \A i \in DOMAIN doc.meshes : \A j \in DOMAIN doc.meshes[i].primitives :
            LET p == DocPrimitive(i, j)
                k == PositionOf(i, j)
            IN  /\ IsSome(Info(i, j).color_offset) <=> IsSome(p.colors)
                /\ IsSome(p.colors) => Info(i, j).color_offset = Some(ColorBytes(ColorsBefore(k)))
                /\ p.colors = None =>
                     /\ Info(i, j).color_offset # Some(0)
                     /\ ColorsBefore(k + 1) = ColorsBefore(k)
                /\ IsSome(Info(i, j).tex_coord_offset) <=> IsSome(p.tex_coords)
                /\ IsSome(p.tex_coords) =>
                     Info(i, j).tex_coord_offset = Some(TexCoordBytes(TexCoordsBefore(k)))
                /\ p.tex_coords = None =>
                     /\ Info(i, j).tex_coord_offset # Some(0)
                     /\ TexCoordsBefore(k + 1) = TexCoordsBefore(k)
       /\ IsSome(md.color_buffer) <=> ColorBytes(ColorsBefore(AllPacked)) # 0
       /\ IsSome(md.color_buffer) =>
            ByteLen(Unwrap(md.color_buffer).data) = ColorBytes(ColorsBefore(AllPacked))
       /\ IsSome(md.tex_coord_buffer) <=> TexCoordBytes(TexCoordsBefore(AllPacked)) # 0
       /\ IsSome(md.tex_coord_buffer) =>
            ByteLen(Unwrap(md.tex_coord_buffer).data) = TexCoordBytes(TexCoordsBefore(AllPacked))
  /\ pc = "done" =>
       /\ IsSome(Scene_color_buffer(Unwrap(scene))) <=> ColorBytes(ColorsBefore(AllPacked)) # 0
       /\ IsSome(Scene_tex_coord_buffer(Unwrap(scene))) <=>
            TexCoordBytes(TexCoordsBefore(AllPacked)) # 0

\* A Scene of two primitives: the first supplies no colours and has no
\* offset, the second supplies an empty colour stream and is the first
\* supplier, at offset 0; both supply texture coordinates, at offsets 0 and
\* 24. The Scene exposes no colour buffer and a texture-coordinate buffer.
C8_Witness ==
  /\ pc = "done"
  /\ Len(PackingOrder) = 2
  /\ LET a == Info(PackingOrder[1][1], PackingOrder[1][2])
         b == Info(PackingOrder[2][1], PackingOrder[2][2])
     IN  /\ a.color_offset = None /\ b.color_offset = Some(0)
         /\ a.tex_coord_offset = Some(0) /\ b.tex_coord_offset = Some(24)
  /\ Scene_color_buffer(Unwrap(scene)) = None
  /\ IsSome(Scene_tex_coord_buffer(Unwrap(scene)))

\* The document cannot be imported, or a primitive of it lacks its index or
\* its position stream.
Unloadable ==
  \/ file.import = None
  \/ \E i \in DOMAIN doc.meshes : \E j \in DOMAIN doc.meshes[i].primitives :
       DocPrimitive(i, j).indices = None \/ DocPrimitive(i, j).positions = None

\* C9: a load of a file that cannot be imported, or of a document with a
\* primitive that lacks its index or position stream, never returns a Scene
\* and ends in the panic; a Scene is only ever returned by a load that ran to
\* its end; and after a panic there is no Scene and no further step: nothing
\* is retried.
C9_AllOrNothing ==
  /\ IsSome(scene) => pc = "done" /\ ~Unloadable
  /\ Unloadable =>
       /\ scene = None
       /\ pc # "done"
       /\ ~ENABLED Next => pc = "panicked"
  /\ pc = "panicked" => scene = None /\ ~ENABLED Next
  /\ pc = "done" => IsSome(scene)

\* The load has panicked at a primitive of the second mesh: the first mesh
\* has been packed into the buffers and has its MeshInfo, and yet there is no
\* Scene.
C9_Witness ==
  /\ pc = "panicked"
  /\ Unloadable
  /\ mesh_infos # <<>>
  /\ index_data # <<>>
  /\ scene = None

\* C10: the Scene of a second load of the same document has the same buffer
\* contents, MeshInfo and PrimitiveInfo tables, material table and instance
\* sequence (structure, primitive offset, transform) as the Scene of the
\* first; the two differ in nothing but, possibly, the load time; and the
\* second load does not panic.
C10_Deterministic ==
  /\ (IsSome(previous) /\ pc = "done") =>
       LET a == Unwrap(previous)
           b == Unwrap(scene)
       IN  /\ a.mesh_data.index_buffer.data = b.mesh_data.index_buffer.data
           /\ a.mesh_data.vertex_buffer.data = b.mesh_data.vertex_buffer.data
           /\ a.mesh_data.color_buffer = b.mesh_data.color_buffer
           /\ a.mesh_data.tex_coord_buffer = b.mesh_data.tex_coord_buffer
           /\ a.mesh_data.mesh_infos = b.mesh_data.mesh_infos
           /\ a.material_infos = b.material_infos
           /\ a.tlas.instance_geometry = b.tlas.instance_geometry
           /\ a.instance_data = b.instance_data
           /\ [a EXCEPT !.load_time = 0] = [b EXCEPT !.load_time = 0]
  /\ IsSome(previous) => pc # "panicked"

\* Two loads of a document with two instances, the second at primitive
\* offset 2, have returned Scenes with different load times.
C10_Witness ==
  /\ pc = "done"
  /\ IsSome(previous)
  /\ Unwrap(previous).load_time # Unwrap(scene).load_time
  /\ Len(Unwrap(scene).tlas.instance_geometry) = 2
  /\ Unwrap(scene).tlas.instance_geometry[2].instance_offset = 2
  /\ Unwrap(previous).tlas.instance_geometry[2].instance_offset = 2

\* The flat per-primitive table: the primitive_infos of all MeshInfo
\* entries of the Scene, concatenated in mesh order.
FlatTable ==
  Flatten([m \in 1..Len(Scene_mesh_infos(Unwrap(scene))) |->
             Scene_mesh_infos(Unwrap(scene))[m].primitive_infos])

\* The PrimitiveInfo records of the mesh an instance references.
RecordsOf(instance) ==
  At(Scene_mesh_infos(Unwrap(scene)), instance.mesh_index).primitive_infos

\* C11: for every instance of the Scene, with primitive offset o and a mesh
\* of k primitives, entries o, o+1, ..., o+k-1 of the flat per-primitive
\* table are exactly the k PrimitiveInfo records of that mesh, in order.
C11_OffsetAddressesTable ==
  pc = "done" =>
    \A i \in 1..Len(Unwrap(scene).tlas.instance_geometry) :
      LET instance == Unwrap(scene).tlas.instance_geometry[i]
          o == instance.instance_offset
          k == Len(RecordsOf(instance))
      IN  /\ o + k <= Len(FlatTable)
          /\ SubSeq(FlatTable, o + 1, o + k) = RecordsOf(instance)

\* The nodes visited so far by the traversal, in the order of their visits:
\* the subtrees of the roots that are done, then, call by call from the
\* outermost, the node of the call and the subtrees of its children that are
\* done. An iterator has moved on when the call on its element is entered, so
\* the last element it has passed is still open unless the call is the
\* innermost.
VisitedBy(d) ==
  LET f == stack[d]
      finished == IF d = Len(stack) THEN f.child_i ELSE f.child_i - 1
  IN  <<f.node>> \o PreorderAll(SubSeq(children(f.node), 1, finished))
Visited ==
  PreorderAll(SubSeq(roots, 1, IF stack = <<>> THEN root_i ELSE root_i - 1))
    \o Flatten([d \in 1..Len(stack) |-> VisitedBy(d)])

\* The instances emitted so far, in the order of their emission: those of the
\* roots that are done, then those held by the active calls.
Emitted == blas_instances \o Flatten([d \in 1..Len(stack) |-> stack[d].instances])

\* instances is the instance sequence of the mesh-bearing nodes among nodes,
\* in order: one instance per node, of the node's mesh and with the node's
\* absolute transform.
InstancesOf(instances, nodes) ==
  LET bearing == SelectSeq(nodes, HasMesh)
  IN  /\ Len(instances) = Len(bearing)
      /\ \A k \in DOMAIN instances :
           /\ instances[k].mesh_index = MeshOf(bearing[k])
           /\ instances[k].blas = At(blases, MeshOf(bearing[k]))
           /\ Entries(instances[k].transform) = PathProduct(bearing[k])

\* The nodes reachable from the roots of the scene.
Reachable == {n \in NodeIds : PathTo(n)[1] \in Range(roots)}
AfterTransforms == {"materials", "construct", "done"}

C12_State ==
  /\ pc = "process_node" =>
       /\ Len(Visited) <= Len(PreorderAll(roots))
       /\ Visited = SubSeq(PreorderAll(roots), 1, Len(Visited))
       /\ InstancesOf(Emitted, Visited)
  /\ pc \in AfterTraversal =>
       /\ InstancesOf(blas_instances, PreorderAll(roots))
       /\ Range(PreorderAll(roots)) = Reachable
       /\ Cardinality(Reachable) = Len(PreorderAll(roots))
  /\ pc \in AfterTransforms =>
       LET records == Unwrap(transform_buffer).data
       IN  /\ Len(records) = Len(blas_instances)
           /\ \A i \in DOMAIN records :
                /\ records[i] = blas_instances[i].transform
                /\ Entries(records[i]) = PathProduct(MeshNodes[i])
  /\ pc = "done" =>
       /\ Unwrap(scene).instance_data.transform_buffer = Unwrap(transform_buffer)
       /\ Unwrap(scene).tlas.instance_geometry = blas_instances

C12_Step ==
  /\ pc = "create_blas_instances" => Visited' = <<>> /\ Emitted' = <<>>
  /\ (pc = "process_node" /\ Len(stack') > Len(stack)) =>
       /\ Len(Visited) < Len(PreorderAll(roots))
       /\ stack'[Len(stack')].node = PreorderAll(roots)[Len(Visited) + 1]
       /\ Visited' = Append(Visited, stack'[Len(stack')].node)
       /\ Emitted' = Emitted \o stack'[Len(stack')].instances
  /\ (pc = "process_node" /\ Len(stack') < Len(stack)) =>
       /\ Visited' = Visited
       /\ Emitted' = Emitted
  /\ (pc = "process_node" /\ pc' = "tlas") =>
       /\ Visited = PreorderAll(roots)
       /\ blas_instances' = Emitted

\* C12: the traversal visits the nodes reachable from the roots of the scene
\* in depth-first pre-order (roots in scene order, a node before its
\* children, children in document order, a subtree before the next sibling),
\* each exactly once; the instance sequence it returns is that of the
\* mesh-bearing nodes among them in the same order; and the transform buffer
\* holds one record per instance, record i being the absolute transform of
\* instance i.
C12_PreorderTraversal == []C12_State /\ [][C12_Step]_vars

\* A Scene of three instances: a mesh-bearing root with a mesh-bearing
\* child, then a second mesh-bearing root; the child's instance comes
\* between the two roots', and the three transform records are three
\* different matrices.
C12_Witness ==
  /\ pc = "done"
  /\ Len(roots) = 2
  /\ children(At(roots, 0)) # <<>>
  /\ Len(blas_instances) = 3
  /\ LET records == Unwrap(scene).instance_data.transform_buffer.data
     IN  /\ Len(records) = 3
         /\ records[1] # records[2] /\ records[2] # records[3] /\ records[1] # records[3]
         /\ Entries(records[2]) = PathProduct(At(children(At(roots, 0)), 0))

====
